---- MODULE Spec2Model ----
(***************************************************************************)
(* devflow: TaskExecutor (core/executor.ts), CleanupManager                *)
(* (core/cleanup.ts) and the test command of the CLI.                      *)
(*                                                                         *)
(* Four specifications over one state:                                     *)
(*   Spec         the workflow scheduler: executeWorkflow,                 *)
(*                executeParallelTasks, executeTasks                       *)
(*   SpecCleanup  CleanupManager in the process of the CLI                 *)
(*   SpecRetry    one call of retryOperation                               *)
(*   SpecDocker   one call of executeDocker                                *)
(*   SpecTask     one call of executeTask                                  *)
(*   SpecHealth   one call of HealthChecker.waitForService                 *)
(*   SpecLog      one LogStreamer: streamLogs, stop                        *)
(* SpecFair is Spec with the fairness that termination needs.              *)
(* Each leaves the state of the others in its initial value.               *)
(*                                                                         *)
(* The scheduler is a state machine of one JavaScript control flow.  The   *)
(* dispatch loop of a wave is synchronous code: promise callbacks (the     *)
(* .then/.catch handlers of a task) can only run while the control flow is *)
(* suspended in an await.  A task is named by its position in              *)
(* workflow.tasks (names are unique within a workflow); the name 0 is a    *)
(* name that no task of the workflow carries (a typo in depends_on).       *)
(***************************************************************************)
EXTENDS Integers, Sequences, FiniteSets, TLC

\* ---------------------------------------------------------------- bounds
\* tasks of a workflow
MaxTasks == 4
\* depends_on entries of a workflow, over all its tasks
MaxDepEdges == 3
\* size of a workflow: each task counts twice, each depends_on entry once
MaxSize == 9

\* ------------------------------------------------------------ the inputs
\* a name in depends_on that no task of the workflow carries
Ghost == 0
NoEdge == <<0, 0>>

Min(a, b) == IF a < b THEN a ELSE b

\* every depends_on relation over n tasks with at most k entries in total:
\* sets of pairs <<task, dependency>>
DepEdgeSets(n, k) ==
  {{f[i] : i \in 1..k} \ {NoEdge} :
     f \in [1..k -> ((1..n) \X (0..n)) \cup {NoEdge}]}

MkTasks(n, edges, flags) ==
  [i \in 1..n |-> [name |-> i,
                   depends_on |-> {e[2] : e \in {d \in edges : d[1] = i}},
                   parallel |-> flags[i]]]

\* what one invocation of executeTask does: resolve true, resolve false,
\* or reject
Outcomes == {"true", "false", "throw"}

\* ------------------------------------------------------------- the state
VARIABLES
  workflow,         \* the Workflow given to executeWorkflow
  pc,               \* position of the control flow
  taskGroups,       \* executeWorkflow: Task[][]
  groupIdx,         \* executeWorkflow: position of "for (const group of taskGroups)"
  tasks,            \* executeParallelTasks: its tasks argument
  inProgress,       \* executeParallelTasks: Set<string>
  completed,        \* executeParallelTasks: Set<string>
  it,               \* executeTasks: position of the loop over dependencyGraph.entries()
  executableTasks,  \* executeTasks: names of the promises pushed in this round
  results,          \* values the promises of executableTasks have resolved to
  running,          \* tasks whose executeTask has been invoked and has not settled
  started,          \* per task: how many times executeTask has been invoked
  outcome,          \* per task: what its last executeTask settled to ("none": not yet)
  before,           \* pairs <<t, u>>: t's executeTask had settled when u's was invoked
  result            \* how executeWorkflow has settled

schedulerVars ==
  <<workflow, pc, taskGroups, groupIdx, tasks, inProgress, completed,
    it, executableTasks, results, running, started, outcome, before,
    result>>

\* CleanupManager (core/cleanup.ts) and the process it runs in
VARIABLES
  resources,           \* CleanupManager.resources: the ledger, in registration order
  isShuttingDown,      \* CleanupManager.isShuttingDown
  shouldExit,          \* CleanupManager.shouldExit, set by initialize(options)
  cleanupPromise,      \* CleanupManager.cleanupPromise: "null", "pending", "resolved", "rejected"
  resourcesToCleanup,  \* triggerCleanup: its reversed copy of the ledger
  teardown,            \* per resource: where its cleanupDockerContainer / cleanupProcess stands
  issued,              \* per resource: the teardown calls made for it, in order
  replies,             \* per resource: what each of these calls answered, in order
  calls,               \* the triggerCleanup calls made: signal and state of the returned promise
  command,             \* testCommand: "running" (in executeWorkflow), "returned"
  exit                 \* the process: "running", "exit0", "exit1"

cleanupVars ==
  <<resources, isShuttingDown, shouldExit, cleanupPromise, resourcesToCleanup,
    teardown, issued, replies, calls, command, exit>>

\* one call of TaskExecutor.retryOperation
VARIABLES
  operation,     \* the operation given to retryOperation
  options,       \* its RetryOptions
  attempt,       \* the loop variable
  delay,         \* the local delay, in ms
  lastError,     \* the invocation whose error lastError holds (0: null)
  invocations,   \* how many times operation() has been called
  waits,         \* the delays awaited, in order
  rpc,           \* "idle", "start", "call", "wait", "returned", "thrown"
  retryResult    \* the value returned or the RetryError thrown

retryVars ==
  <<operation, options, attempt, delay, lastError, invocations, waits, rpc,
    retryResult>>

\* one call of TaskExecutor.executeDocker
VARIABLES
  dockerTask,    \* the Task: image, container_name, health_check
  dpc,           \* "idle", "begin", "pull", "create", "start", "health", "done"
  pulls,         \* docker.pull calls made
  startCalls,    \* container.start calls made
  started_ok,    \* container.start has resolved
  probes,        \* HealthChecker.waitForService calls made
  healthCheck,   \* the ServiceHealthCheck given to waitForService
  dockerResult   \* how executeDocker has settled

dockerVars ==
  <<dockerTask, dpc, pulls, startCalls, started_ok, probes, healthCheck, dockerResult>>

\* one call of TaskExecutor.executeTask
VARIABLES
  taskArg,       \* the Task: type, command (present or not), env, env_file
  fileEnv,       \* what EnvLoader.loadEnvFile(task.env_file) returns
  context,       \* the ExecutionContext: dryRun, env
  processEnv,    \* process.env
  tpc,           \* "idle", "begin", "command", "docker", "done"
  spawns,        \* child_process.spawn calls made
  spawnEnv,      \* the env option given to spawn
  childPid,      \* childProcess.pid as registered in the ledger (0: undefined)
  childExit,     \* how the child ended: "none", "error", or the code of 'close'
  taskResult     \* how executeTask has settled: "none", "true", "false", "throw"

taskVars ==
  <<taskArg, fileEnv, context, processEnv, tpc, spawns, spawnEnv, childPid,
    childExit, taskResult>>

\* one call of HealthChecker.waitForService (utils/health.ts)
VARIABLES
  check,         \* the ServiceHealthCheck: type, path, interval, customCheck
  hpc,           \* "idle", "begin", "probe", "done"
  probeCalls,    \* socket.connect, http.get and customCheck calls made, in order
  elapsed,       \* ms since the socket or request timeout was armed
  probePromise,  \* the promise of checkTCP / checkHTTP / customCheck()
  probeEvent,    \* the event that settled it: kind, status of the HTTP response
  waitResult     \* how waitForService has settled: "none", "true", "false", "throw"

healthVars ==
  <<check, hpc, probeCalls, elapsed, probePromise, probeEvent, waitResult>>

\* one LogStreamer (commands/logs.ts) and the stream container.logs gives it
VARIABLES
  logOptions,    \* this.options: follow, timestamps, filter
  lpc,           \* streamLogs: "idle", "begin", "logs", "streaming"
  currentStream, \* this.currentStream: "null" or "stream"
  stream,        \* the Readable: "none", "open", "ended", "errored", "destroyed"
  chunk,         \* the chunk of the last 'data' event
  line,          \* what processChunk returned for it
  received,      \* 'data' events so far
  consumed,      \* what they carried: a frame counts 1 + its payload's length
  delivered,     \* onLog calls so far
  stopped,       \* stop() has been called
  lateLine,      \* onLog has been called after stop()
  logPromise     \* the promise of streamLogs: "none", "pending", "resolved", "rejected"

logVars ==
  <<logOptions, lpc, currentStream, stream, chunk, line, received, consumed,
    delivered, stopped, lateLine, logPromise>>

vars ==
  <<schedulerVars, cleanupVars, retryVars, dockerVars, taskVars, healthVars,
    logVars>>

\* the variables no step of the scheduler touches
outsideScheduler == <<cleanupVars, retryVars, dockerVars, taskVars, healthVars, logVars>>
\* the variables no step of the CleanupManager touches
outsideCleanup == <<schedulerVars, retryVars, dockerVars, taskVars, healthVars, logVars>>
\* the variables no step of retryOperation touches
outsideRetry == <<schedulerVars, cleanupVars, dockerVars, taskVars, healthVars, logVars>>

\* a TaskExecutor that has been given the empty workflow and has not run
SchedulerIdle ==
  /\ workflow = [parallel |-> FALSE, tasks |-> <<>>]
  /\ pc = "start" /\ taskGroups = <<>> /\ groupIdx = 0 /\ tasks = <<>>
  /\ inProgress = {} /\ completed = {} /\ it = 0 /\ executableTasks = <<>>
  /\ results = <<>> /\ running = {} /\ started = <<>> /\ outcome = <<>>
  /\ before = {}
  /\ result = [kind |-> "None", task |-> 0, unmet |-> <<>>]

\* the CleanupManager as the class is loaded: nothing registered, no
\* teardown triggered
CleanupIdle ==
  /\ resources = <<>> /\ isShuttingDown = FALSE /\ shouldExit = TRUE
  /\ cleanupPromise = "null" /\ resourcesToCleanup = <<>>
  /\ teardown = <<>> /\ issued = <<>> /\ replies = <<>> /\ calls = <<>>
  /\ command = "running" /\ exit = "running"

\* no retryOperation call
NoOptions == [attempts |-> 0, initialDelay |-> 0, maxDelay |-> 0, factor |-> <<1, 1>>]
NoRetryResult == [kind |-> "none", value |-> "undefined", attempts |-> 0, cause |-> 0]
RetryIdle ==
  /\ operation = "none" /\ options = NoOptions /\ attempt = 0 /\ delay = 0
  /\ lastError = 0 /\ invocations = 0 /\ waits = <<>> /\ rpc = "idle"
  /\ retryResult = NoRetryResult

\* no executeDocker call
NoCheck == [type |-> "none", host |-> "", port |-> 0]
NoTask == [image |-> "", container_name |-> FALSE, health_check |-> NoCheck]
DockerIdle ==
  /\ dockerTask = NoTask /\ dpc = "idle" /\ pulls = 0 /\ startCalls = 0
  /\ started_ok = FALSE /\ probes = 0 /\ healthCheck = NoCheck
  /\ dockerResult = "none"

\* no executeTask call
NoEnv == [k \in {} |-> ""]
NoTaskArg == [type |-> "none", command |-> FALSE, env |-> NoEnv, env_file |-> FALSE]
TaskIdle ==
  /\ taskArg = NoTaskArg /\ fileEnv = NoEnv
  /\ context = [dryRun |-> FALSE, env |-> NoEnv] /\ processEnv = NoEnv
  /\ tpc = "idle" /\ spawns = 0 /\ spawnEnv = NoEnv /\ childPid = 0
  /\ childExit = "none" /\ taskResult = "none"

\* no waitForService call
NoServiceCheck == [type |-> "none", path |-> FALSE, interval |-> 0, customCheck |-> "none"]
NoStatus == [defined |-> FALSE, code |-> 0]
NoEvent == [kind |-> "none", status |-> NoStatus]
HealthIdle ==
  /\ check = NoServiceCheck /\ hpc = "idle" /\ probeCalls = <<>> /\ elapsed = 0
  /\ probePromise = "none" /\ probeEvent = NoEvent /\ waitResult = "none"

\* no LogStreamer
NoChunk == [header |-> <<>>, payload |-> <<>>]
\* the result of processChunk: <<>> is null, <<l>> is the line l
Null == <<>>
LogIdle ==
  /\ logOptions = [follow |-> FALSE, timestamps |-> FALSE, filter |-> <<>>]
  /\ lpc = "idle" /\ currentStream = "null"
  /\ stream = "none" /\ chunk = NoChunk /\ line = Null /\ received = 0
  /\ consumed = 0 /\ delivered = 0 /\ stopped = FALSE /\ lateLine = FALSE
  /\ logPromise = "none"

NoResult == [kind |-> "None", task |-> Ghost, unmet |-> <<>>]
Resolved == [kind |-> "Success", task |-> Ghost, unmet |-> <<>>]
\* new Error(`Task "${name}" failed`)
TaskFailedError(n) == [kind |-> "TaskFailed", task |-> n, unmet |-> <<>>]
\* the rejection of executeTask(n) itself, propagated unchanged by the await
\* (an error raised for task n)
ThrownError(n) == [kind |-> "Thrown", task |-> n, unmet |-> <<>>]
\* new Error('One or more parallel tasks failed')
ParallelFailedError == [kind |-> "ParallelFailed", task |-> Ghost, unmet |-> <<>>]
\* new Error(`Deadlock detected. ...`)
DeadlockError(u) == [kind |-> "Deadlock", task |-> Ghost, unmet |-> u]

\* ------------------------------------------------------- pure operators

\* a bug: the test of task.parallel is inverted
RECURSIVE GroupTasksInverted(_, _, _)
GroupTasksInverted(ts, groups, currentGroup) ==
  IF ts = <<>>
  THEN IF Len(currentGroup) > 0 THEN Append(groups, currentGroup) ELSE groups
  ELSE LET task == Head(ts) IN
       IF ~task.parallel
       THEN GroupTasksInverted(Tail(ts), groups, Append(currentGroup, task))
       ELSE IF Len(currentGroup) > 0
            THEN GroupTasksInverted(Tail(ts), Append(Append(groups, currentGroup), <<task>>), <<>>)
            ELSE GroupTasksInverted(Tail(ts), Append(groups, <<task>>), <<>>)

\* a bug: the pending run of parallel tasks is dropped into the same group
\* as the sequential task that ends it
RECURSIVE GroupTasksMerged(_, _, _)
GroupTasksMerged(ts, groups, currentGroup) ==
  IF ts = <<>>
  THEN IF Len(currentGroup) > 0 THEN Append(groups, currentGroup) ELSE groups
  ELSE LET task == Head(ts) IN
       IF task.parallel
       THEN GroupTasksMerged(Tail(ts), groups, Append(currentGroup, task))
       ELSE IF Len(currentGroup) > 0
            THEN GroupTasksMerged(Tail(ts), Append(groups, Append(currentGroup, task)), <<>>)
            ELSE GroupTasksMerged(Tail(ts), Append(groups, <<task>>), <<>>)

\* executeWorkflow: "group consecutive parallel tasks"
RECURSIVE GroupTasks(_, _, _)
GroupTasks(ts, groups, currentGroup) ==
  IF ts = <<>>
  THEN IF Len(currentGroup) > 0 THEN Append(groups, currentGroup) ELSE groups
  ELSE LET task == Head(ts) IN
       IF task.parallel
       THEN GroupTasks(Tail(ts), groups, Append(currentGroup, task))
       ELSE IF Len(currentGroup) > 0
            THEN GroupTasks(Tail(ts), Append(Append(groups, currentGroup), <<task>>), <<>>)
            ELSE GroupTasks(Tail(ts), Append(groups, <<task>>), <<>>)

TaskGroups(ts) == GroupTasks(ts, <<>>, <<>>)

\* "group.length === 1 && !group[0].parallel"
IsSequentialGroup(group) == Len(group) = 1 /\ ~group[1].parallel

\* "Array.from(dependencies).every(dep => completed.has(dep))"
CanExecute(dependencies, done) == \A dep \in dependencies : dep \in done

\* the deadlock message: tasks.filter(t => !completed.has(t.name)) mapped to
\* {task, deps: t.depends_on.filter(d => !completed.has(d))}
UnmetDeps(ts, done) ==
  LET remaining == SelectSeq(ts, LAMBDA t : t.name \notin done)
  IN  [i \in 1..Len(remaining) |->
         [task |-> remaining[i].name, deps |-> remaining[i].depends_on \ done]]

\* a bug: control resumes while the dispatch loop is still calling executeTask
\* (an await inside the loop)
CanSettleInLoop == pc \in {"await", "dispatch"}

\* the handlers of a wave's promises run only once executeTasks is suspended
\* in "await Promise.all(executableTasks)"
CanSettle == pc = "await"

\* a bug: Promise.all over promises that may reject settles at the first
\* failure
AllSettledFailFast(names, res) ==
  \/ \A n \in names : n \in DOMAIN res
  \/ \E n \in names : n \in DOMAIN res /\ ~res[n]

\* Promise.all over promises that never reject settles when all have
AllSettled(names, res) == \A n \in names : n \in DOMAIN res

\* a bug: every instead of some, a wave fails only when all its tasks failed
SomeFailedEvery(res) == \A n \in DOMAIN res : ~res[n]

\* a bug: the results of the wave are never looked at
SomeFailedIgnored(res) == FALSE

\* "results.some(r => !r)"
SomeFailed(res) == \E n \in DOMAIN res : ~res[n]

Range(s) == {s[i] : i \in DOMAIN s}

\* --------------------------------------------------------------- actions
Init ==
  /\ \E n \in {m \in 0..MaxTasks : m + m <= MaxSize} :
       \E edges \in DepEdgeSets(n, Min(MaxDepEdges, MaxSize - n - n)) :
         \E p \in BOOLEAN, flags \in [1..n -> BOOLEAN] :
           workflow = [parallel |-> p, tasks |-> MkTasks(n, edges, flags)]
  /\ pc = "start"
  /\ taskGroups = <<>>
  /\ groupIdx = 0
  /\ tasks = <<>>
  /\ inProgress = {}
  /\ completed = {}
  /\ it = 0
  /\ executableTasks = <<>>
  /\ results = <<>>
  /\ running = {}
  /\ started = [i \in DOMAIN workflow.tasks |-> 0]
  /\ outcome = [i \in DOMAIN workflow.tasks |-> "none"]
  /\ before = {}
  /\ result = NoResult
  /\ CleanupIdle /\ RetryIdle /\ DockerIdle /\ TaskIdle /\ HealthIdle /\ LogIdle

\* executeTask(n) is invoked
Invoked(n) ==
  /\ started' = [started EXCEPT ![n] = @ + 1]
  /\ before' = before \cup {<<t, n>> : t \in {u \in DOMAIN outcome : outcome[u] # "none"}}
  /\ UNCHANGED outcome

\* the promise of executeTask(n) settles
Settled(n, o) ==
  /\ outcome' = [outcome EXCEPT ![n] = o]
  /\ UNCHANGED <<started, before>>

\* entering executeParallelTasks(ts): fresh maps and sets, first executeTasks()
EnterParallelTasks(ts) ==
  /\ tasks' = ts
  /\ inProgress' = {}
  /\ completed' = {}
  /\ it' = 1
  /\ executableTasks' = <<>>
  /\ results' = <<>>
  /\ pc' = "dispatch"

\* executeWorkflow with workflow.parallel set
ExecuteWorkflowParallel ==
  /\ pc = "start"
  /\ workflow.parallel
  /\ EnterParallelTasks(workflow.tasks)
  /\ groupIdx' = 0
  /\ UNCHANGED <<workflow, taskGroups, running, started, outcome, before, result>>
  /\ UNCHANGED outsideScheduler

\* executeWorkflow without workflow.parallel: build taskGroups
ExecuteWorkflowGrouped ==
  /\ pc = "start"
  /\ ~workflow.parallel
  /\ taskGroups' = TaskGroups(workflow.tasks)
  /\ groupIdx' = 1
  /\ pc' = "group"
  /\ UNCHANGED <<workflow, tasks, inProgress, completed, it, executableTasks,
                 results, running, started, outcome, before, result>>
  /\ UNCHANGED outsideScheduler

\* the group loop reaches a sequential task: await this.executeTask(group[0])
StartSequentialTask ==
  /\ pc = "group"
  /\ groupIdx <= Len(taskGroups)
  /\ IsSequentialGroup(taskGroups[groupIdx])
  /\ LET n == taskGroups[groupIdx][1].name IN
       /\ running' = running \cup {n}
       /\ Invoked(n)
  /\ pc' = "seqAwait"
  /\ UNCHANGED <<workflow, taskGroups, groupIdx, tasks, inProgress, completed,
                 it, executableTasks, results, result>>
  /\ UNCHANGED outsideScheduler

\* the awaited executeTask of a sequential task settles
SequentialTaskSettles(o) ==
  /\ pc = "seqAwait"
  /\ LET n == taskGroups[groupIdx][1].name IN
       /\ running' = running \ {n}
       /\ Settled(n, o)
       /\ CASE o = "true"  -> /\ groupIdx' = groupIdx + 1
                              /\ pc' = "group"
                              /\ result' = result
            [] o = "false" -> /\ result' = TaskFailedError(n)
                              /\ pc' = "done"
                              /\ groupIdx' = groupIdx
            [] OTHER       -> /\ result' = ThrownError(n)
                              /\ pc' = "done"
                              /\ groupIdx' = groupIdx
  /\ UNCHANGED <<workflow, taskGroups, tasks, inProgress, completed, it,
                 executableTasks, results>>
  /\ UNCHANGED outsideScheduler

\* the group loop reaches a parallel group: await this.executeParallelTasks(group)
StartParallelGroup ==
  /\ pc = "group"
  /\ groupIdx <= Len(taskGroups)
  /\ ~IsSequentialGroup(taskGroups[groupIdx])
  /\ EnterParallelTasks(taskGroups[groupIdx])
  /\ UNCHANGED <<workflow, taskGroups, groupIdx, running, started, outcome, before, result>>
  /\ UNCHANGED outsideScheduler

\* the group loop is over: return true
GroupsDone ==
  /\ pc = "group"
  /\ groupIdx > Len(taskGroups)
  /\ result' = Resolved
  /\ pc' = "done"
  /\ UNCHANGED <<workflow, taskGroups, groupIdx, tasks, inProgress, completed,
                 it, executableTasks, results, running, started, outcome, before>>
  /\ UNCHANGED outsideScheduler

\* executeParallelTasks returns true to executeWorkflow
ParallelTasksReturnTrue ==
  IF groupIdx = 0
  THEN /\ result' = Resolved
       /\ pc' = "done"
       /\ groupIdx' = groupIdx
  ELSE /\ result' = result
       /\ pc' = "group"
       /\ groupIdx' = groupIdx + 1

\* one iteration of "for (const [taskName, dependencies] of dependencyGraph.entries())"
DispatchStep ==
  /\ pc = "dispatch"
  /\ it <= Len(tasks)
  /\ LET task == tasks[it]
         taskName == task.name
     IN  IF taskName \in completed \/ taskName \in inProgress
         THEN UNCHANGED <<inProgress, executableTasks, running, started, outcome, before>>
         ELSE IF CanExecute(task.depends_on, completed)
              THEN /\ inProgress' = inProgress \cup {taskName}
                   /\ executableTasks' = Append(executableTasks, taskName)
                   /\ running' = running \cup {taskName}
                   /\ Invoked(taskName)
              ELSE UNCHANGED <<inProgress, executableTasks, running, started, outcome, before>>
  /\ it' = it + 1
  /\ UNCHANGED <<workflow, pc, taskGroups, groupIdx, tasks, completed, results,
                 result>>
  /\ UNCHANGED outsideScheduler

\* after the loop: nothing was dispatched and tasks remain
DispatchDeadlock ==
  /\ pc = "dispatch"
  /\ it > Len(tasks)
  /\ Len(executableTasks) = 0
  /\ Cardinality(completed) < Len(tasks)
  /\ result' = DeadlockError(UnmetDeps(tasks, completed))
  /\ pc' = "done"
  /\ UNCHANGED <<workflow, taskGroups, groupIdx, tasks, inProgress, completed,
                 it, executableTasks, results, running, started, outcome, before>>
  /\ UNCHANGED outsideScheduler

\* after the loop: nothing was dispatched and nothing remains
DispatchNothingLeft ==
  /\ pc = "dispatch"
  /\ it > Len(tasks)
  /\ Len(executableTasks) = 0
  /\ ~(Cardinality(completed) < Len(tasks))
  /\ ParallelTasksReturnTrue
  /\ UNCHANGED <<workflow, taskGroups, tasks, inProgress, completed, it,
                 executableTasks, results, running, started, outcome, before>>
  /\ UNCHANGED outsideScheduler

\* after the loop: await Promise.all(executableTasks)
DispatchAwait ==
  /\ pc = "dispatch"
  /\ it > Len(tasks)
  /\ Len(executableTasks) > 0
  /\ pc' = "await"
  /\ UNCHANGED <<workflow, taskGroups, groupIdx, tasks, inProgress, completed,
                 it, executableTasks, results, running, started, outcome, before,
          result>>
  /\ UNCHANGED outsideScheduler

\* executeTask(task) of a dispatched task settles and its handlers run:
\* .then(success => { if (success) { completed.add; inProgress.delete }; return success })
\* .catch(error => false)
TaskSettles(n, o) ==
  /\ CanSettle
  /\ n \in Range(executableTasks)
  /\ n \in running
  /\ running' = running \ {n}
  /\ Settled(n, o)
  /\ IF o = "true"
     THEN /\ completed' = completed \cup {n}
          /\ inProgress' = inProgress \ {n}
     ELSE UNCHANGED <<completed, inProgress>>
  /\ results' = (n :> (o = "true")) @@ results
  /\ UNCHANGED <<workflow, pc, taskGroups, groupIdx, tasks, it, executableTasks,
                 result>>
  /\ UNCHANGED outsideScheduler

\* Promise.all has settled and some result is false
WaveFailed ==
  /\ pc = "await"
  /\ AllSettled(Range(executableTasks), results)
  /\ SomeFailed(results)
  /\ result' = ParallelFailedError
  /\ pc' = "done"
  /\ UNCHANGED <<workflow, taskGroups, groupIdx, tasks, inProgress, completed,
                 it, executableTasks, results, running, started, outcome, before>>
  /\ UNCHANGED outsideScheduler

\* Promise.all has settled, all true, tasks remain: return executeTasks()
WaveContinue ==
  /\ pc = "await"
  /\ AllSettled(Range(executableTasks), results)
  /\ ~SomeFailed(results)
  /\ Cardinality(completed) < Len(tasks)
  /\ it' = 1
  /\ executableTasks' = <<>>
  /\ results' = <<>>
  /\ pc' = "dispatch"
  /\ UNCHANGED <<workflow, taskGroups, groupIdx, tasks, inProgress, completed,
                 running, started, outcome, before, result>>
  /\ UNCHANGED outsideScheduler

\* Promise.all has settled, all true, nothing remains: return true
WaveDone ==
  /\ pc = "await"
  /\ AllSettled(Range(executableTasks), results)
  /\ ~SomeFailed(results)
  /\ ~(Cardinality(completed) < Len(tasks))
  /\ ParallelTasksReturnTrue
  /\ UNCHANGED <<workflow, taskGroups, tasks, inProgress, completed, it,
                 executableTasks, results, running, started, outcome, before>>
  /\ UNCHANGED outsideScheduler

Next ==
  \/ ExecuteWorkflowParallel
  \/ ExecuteWorkflowGrouped
  \/ StartSequentialTask
  \/ \E o \in Outcomes : SequentialTaskSettles(o)
  \/ StartParallelGroup
  \/ GroupsDone
  \/ DispatchStep
  \/ DispatchDeadlock
  \/ DispatchNothingLeft
  \/ DispatchAwait
  \/ \E n \in running, o \in Outcomes : TaskSettles(n, o)
  \/ WaveFailed
  \/ WaveContinue
  \/ WaveDone

Spec == Init /\ [][Next]_vars

\* every task execution terminates and the control flow goes on: each step
\* that can be taken is taken
SpecFair == Spec /\ WF_vars(Next)

\* ---------------------------------------------------------------- claims
Names == DOMAIN workflow.tasks
Deps(n) == workflow.tasks[n].depends_on
IsParallelTask(n) == workflow.tasks[n].parallel
Succeeded == {n \in Names : outcome[n] = "true"}
Failed == {n \in Names : outcome[n] \in {"false", "throw"}}
Wave == Range(executableTasks)
Rejections == {"TaskFailed", "Thrown", "ParallelFailed", "Deadlock"}

\* the names listed by a deadlock error
Listed(err) == {err.unmet[i].task : i \in DOMAIN err.unmet}

\* everything reachable from the names S along depends_on, in at most k steps
RECURSIVE DepClosure(_, _)
DepClosure(S, k) ==
  IF k = 0 THEN S
  ELSE DepClosure(S \cup UNION {Deps(x) : x \in S \cap Names}, k - 1)

Acyclic == \A n \in Names : n \notin DepClosure(Deps(n), Len(workflow.tasks))
NamesOnlyTasks == \A n \in Names : Deps(n) \subseteq Names

\* no workflow-level flag and no task flag
PurelySequential == ~workflow.parallel /\ \A n \in Names : ~IsParallelTask(n)

\* t and u belong to one contiguous run of parallel-flagged tasks
SameRun(t, u) ==
  \A k \in Names : (Min(t, u) <= k /\ k <= (IF t < u THEN u ELSE t)) => IsParallelTask(k)

\* C1: in every workflow, whatever the mode and the declaration order, a task
\* B whose depends_on contains a task A has executeTask invoked only after
\* A's executeTask has resolved true.
C1_DependencyFinishedBeforeStart ==
  \A b \in Names : started[b] > 0 =>
    \A a \in (Deps(b) \cap Names) \ {b} :
      <<a, b>> \in before /\ outcome[a] = "true"

\* C2: when depends_on is acyclic and names only tasks of the workflow and no
\* task fails, no deadlock is reported, no task is invoked twice, and the
\* workflow ends in success with every task invoked exactly once.
C2_AcyclicRunsEveryTaskOnce ==
  (Acyclic /\ NamesOnlyTasks /\ Failed = {}) =>
    /\ \A n \in Names : started[n] <= 1
    /\ result.kind \in {"None", "Success"}
    /\ pc = "done" => \A n \in Names : started[n] = 1

\* the cycle of the test: task 1 depends on 3, 2 on 1, 3 on 2
Cycle3 ==
  /\ Len(workflow.tasks) = 3
  /\ Deps(1) = {3} /\ Deps(2) = {1} /\ Deps(3) = {2}

\* C3: a workflow whose three tasks form a dependency cycle never has any of
\* them executed, and ends in a deadlock error that names all three.
C3_CycleIsDeadlock ==
  Cycle3 =>
    /\ \A n \in Names : started[n] = 0
    /\ pc = "done" => (result.kind = "Deadlock" /\ Listed(result) = {1, 2, 3})

\* C4: a deadlock error lists every task of the scheduled scope that has not
\* completed, each with exactly its declared dependencies that have not
\* completed; and a task with a depends_on entry that names no task of the
\* workflow is never run as if that entry were satisfied.
C4_DeadlockListsUnmet ==
  /\ result.kind = "Deadlock" =>
       /\ Listed(result) = {tasks[k].name : k \in DOMAIN tasks} \ Succeeded
       /\ \A i \in DOMAIN result.unmet :
            result.unmet[i].deps = Deps(result.unmet[i].task) \ Succeeded
  /\ \A n \in Names : Ghost \in Deps(n) => started[n] = 0

\* C5 as stated: when the deadlock error is reported, executeTask has been
\* invoked for no task of the workflow.
C5_DeadlockBeforeAnyTask ==
  result.kind = "Deadlock" => \A n \in Names : started[n] = 0

\* C5, amended: when the deadlock error is reported, executeTask has been
\* invoked for none of the tasks the error names and no task is in flight
\* (tasks of earlier waves and groups may have run).
C5_DeadlockBeforeAffectedWave ==
  result.kind = "Deadlock" =>
    /\ running = {}
    /\ \A n \in Listed(result) : started[n] = 0

C5_Witness ==
  /\ result.kind = "Deadlock"
  /\ \E n \in Names : started[n] > 0
  /\ Listed(result) # {}

C7_SequentialInOrder ==
  PurelySequential =>
    /\ Cardinality(running) <= 1
    /\ \A u \in Names :
         /\ started[u] <= 1
         /\ started[u] > 0 =>
              \A t \in Names : t < u => (<<t, u>> \in before /\ outcome[t] = "true")

C7_Witness ==
  /\ PurelySequential
  /\ Len(workflow.tasks) >= 3
  /\ outcome[1] = "true" /\ outcome[2] = "true"
  /\ running = {3}

\* a non-parallel workflow with at least one sequential and one flagged task
Mixed ==
  /\ ~workflow.parallel
  /\ \E s \in Names : ~IsParallelTask(s)
  /\ \E t \in Names : IsParallelTask(t)

\* a sequential task declared before a flagged task has settled when the
\* flagged task is invoked, and conversely
SequentialOrderedAroundRuns ==
  \A s \in Names : \A t \in Names :
    (~IsParallelTask(s) /\ IsParallelTask(t)) =>
      /\ (s < t /\ started[t] > 0) => <<s, t>> \in before
      /\ (t < s /\ started[s] > 0) => (<<t, s>> \in before /\ outcome[t] = "true")

Chain3 ==
  /\ Len(workflow.tasks) = 3
  /\ Deps(1) = {} /\ Deps(2) = {1} /\ Deps(3) = {2}

\* C9: after a task has failed no task is invoked, and the workflow ends in
\* a rejection; in the chain, when Migrate fails RunTests is not invoked and
\* the error names Migrate.
C9_FailureStopsAndNamesTask ==
  /\ \A t \in Failed : \A u \in Names : <<t, u>> \notin before
  /\ (pc = "done" /\ Failed # {}) => result.kind \in Rejections
  /\ (Chain3 /\ 2 \in Failed) =>
       /\ started[3] = 0
       /\ pc = "done" => result.task = 2

\* C10: the failure of a wave is reported only when every task of the wave
\* has settled with its own outcome; none is still in flight.
C10_FailureAfterSiblingsSettle ==
  result.kind = "ParallelFailed" =>
    /\ running = {}
    /\ \A n \in Wave : outcome[n] \in Outcomes /\ n \in DOMAIN results

C10_Witness ==
  /\ result.kind = "ParallelFailed"
  /\ \E n \in Wave : outcome[n] = "true"
  /\ \E n \in Wave : outcome[n] = "false"

\* the task names an error carries: the task of a task error, the tasks a
\* deadlock error lists; the aggregate error of a wave carries none
Identified(err) == (IF err.task = Ghost THEN {} ELSE {err.task}) \cup Listed(err)

\* C11: when several tasks of one wave fail, the error of executeWorkflow
\* identifies every failed task of that wave.
C11_WaveErrorCarriesAllCauses ==
  result.kind = "ParallelFailed" => (Failed \cap Wave) \subseteq Identified(result)

\* C38: when every task execution terminates, executeWorkflow terminates;
\* a round of the wave loop that is followed by another round has
\* completed at least one more task, the completed tasks are tasks of the
\* call, and the run ends in exactly one of success, task failure or
\* deadlock.
C38_WorkflowTerminates ==
  /\ <>(pc = "done")
  /\ [](completed \subseteq {tasks[i].name : i \in DOMAIN tasks})
  /\ []((pc = "done") <=> (result.kind \in Rejections \cup {"Success"}))
  /\ [][WaveContinue => (Wave # {} /\ Wave \subseteq completed)]_vars

\* three tasks run in three rounds, one after the other
C38_Witness ==
  /\ pc = "done" /\ result = Resolved
  /\ workflow.parallel /\ Len(workflow.tasks) = 3
  /\ Deps(2) = {1} /\ Deps(3) = {2}
  /\ {<<1, 2>>, <<2, 3>>} \subseteq before

\* ===========================================================================
\* CleanupManager (core/cleanup.ts) in the process of the devflow CLI
\* (cli entry, cli/commands/test.ts).
\*
\* A resource is named by its position in the ledger.  Code between two
\* awaits runs without interruption, and the handlers of a settled promise
\* run before the next timer, signal or I/O callback: the continuation of
\* triggerCleanup behind "await this.cleanupPromise" is part of the step that
\* settles Promise.all.
\* ===========================================================================

\* ---------------------------------------------------------------- bounds
\* resources registered in one process
MaxResources == 2
\* triggerCleanup calls in one process
MaxCalls == 2
\* registrations and triggerCleanup calls of one run, together
MaxCleanupSize == 4

\* ------------------------------------------------------------ the inputs
\* the callers of triggerCleanup: the three handlers of initialize and
\* cleanCommand
Signals == {"SIGINT", "SIGTERM", "uncaughtException", "manual"}
ResourceTypes == {"docker", "process"}
\* container.inspect(): State.Running, not running, an error whose message
\* includes 'no such container', any other error
InspectResults == {"running", "stopped", "nosuch", "error"}
\* container.stop() / container.remove()
CallResults == {"ok", "nosuch", "error"}
\* process.kill(pid, 0) / process.kill(pid): returns, throws ESRCH, throws
\* another error
KillResults == {"ok", "ESRCH", "EPERM"}

Reverse(s) == [i \in 1..Len(s) |-> s[Len(s) + 1 - i]]

\* a teardown that has settled: its promise resolved ("done") or rejected
Settling == {"done", "failed"}
\* a cleanupDockerContainer suspended in an await of a docker call
InFlight == {"inspect", "stop", "remove"}

\* cleanupProcess without the existence test: the signal is sent whatever the
\* probe answered
CleanupProcessBlind(probe, kill) ==
  [issued |-> <<"probe", "kill">>, replies |-> <<probe, kill>>,
   end |-> IF kill = "EPERM" THEN "failed" ELSE "done"]

\* cleanupProcess(pid): synchronous; the calls it makes and how its promise
\* settles
CleanupProcess(probe, kill) ==
  IF probe = "ESRCH"
  THEN [issued |-> <<"probe">>, replies |-> <<probe>>, end |-> "done"]
  ELSE IF probe # "ok"
  THEN [issued |-> <<"probe">>, replies |-> <<probe>>, end |-> "failed"]
  ELSE IF kill = "EPERM"
  THEN [issued |-> <<"probe", "kill">>, replies |-> <<probe, kill>>, end |-> "failed"]
  ELSE [issued |-> <<"probe", "kill">>, replies |-> <<probe, kill>>, end |-> "done"]

\* cleanupDockerContainer going on to remove after a failed stop
CleanupDockerContainerForce(pos, res) ==
  IF res = "nosuch" THEN "done"
  ELSE IF pos = "stop" THEN "remove"
  ELSE IF res = "error" THEN "failed"
  ELSE IF pos = "inspect" THEN (IF res = "running" THEN "stop" ELSE "remove")
  ELSE "done"

\* cleanupDockerContainer without the 'no such container' test
CleanupDockerContainerNoSuchFails(pos, res) ==
  IF res \in {"nosuch", "error"} THEN "failed"
  ELSE IF pos = "inspect" THEN (IF res = "running" THEN "stop" ELSE "remove")
  ELSE IF pos = "stop" THEN "remove"
  ELSE "done"

\* cleanupDockerContainer(id) resumed with the result of the call it awaits
CleanupDockerContainer(pos, res) ==
  IF res = "nosuch" THEN "done"
  ELSE IF res = "error" THEN "failed"
  ELSE IF pos = "inspect" THEN (IF res = "running" THEN "stop" ELSE "remove")
  ELSE IF pos = "stop" THEN "remove"
  ELSE "done"

\* Promise.all over the teardowns of ids: rejected with the first rejection,
\* resolved when all have resolved
PromiseAll(td, ids) ==
  IF \E i \in ids : td[i] = "failed" THEN "rejected"
  ELSE IF \A i \in ids : td[i] = "done" THEN "resolved"
  ELSE "pending"

\* "if (this.isShuttingDown) return" made blind
AlreadyShuttingDownNever == FALSE

\* the guard of triggerCleanup
AlreadyShuttingDown == isShuttingDown

\* ------------------------------------------------------------------ Init
\* the process after CleanupManager.initialize(options), inside testCommand
CleanupInit ==
  /\ shouldExit \in BOOLEAN
  /\ resources = <<>> /\ isShuttingDown = FALSE
  /\ cleanupPromise = "null" /\ resourcesToCleanup = <<>>
  /\ teardown = <<>> /\ issued = <<>> /\ replies = <<>> /\ calls = <<>>
  /\ command = "running" /\ exit = "running"
  /\ SchedulerIdle /\ RetryIdle /\ DockerIdle /\ TaskIdle /\ HealthIdle /\ LogIdle

\* --------------------------------------------------------------- actions
\* registerContainer / registerProcess, called by a task of the running
\* workflow
Register(type) ==
  /\ exit = "running"
  /\ command = "running"
  /\ Len(resources) < MaxResources
  /\ Len(resources) + Len(calls) < MaxCleanupSize
  /\ resources' = Append(resources, [id |-> Len(resources) + 1, type |-> type])
  /\ teardown' = Append(teardown, "none")
  /\ issued' = Append(issued, <<>>)
  /\ replies' = Append(replies, <<>>)
  /\ UNCHANGED <<isShuttingDown, shouldExit, cleanupPromise, resourcesToCleanup,
                 calls, command, exit>>
  /\ UNCHANGED outsideCleanup

\* triggerCleanup behind Promise.all: the .then handler when it resolved,
\* the catch around the await when it rejected; cs is calls, the call that
\* runs the teardown included
AfterPromiseAll(status, cs) ==
  IF status = "pending"
  THEN /\ cleanupPromise' = "pending"
       /\ calls' = cs
       /\ exit' = exit
  ELSE IF shouldExit
  THEN /\ cleanupPromise' = (IF status = "resolved" THEN "pending" ELSE "rejected")
       /\ calls' = cs
       /\ exit' = (IF status = "resolved" THEN "exit0" ELSE "exit1")
  ELSE /\ cleanupPromise' = status
       /\ calls' = [c \in DOMAIN cs |->
                      IF cs[c].state = "awaiting"
                      THEN [cs[c] EXCEPT !.state = "resolved"] ELSE cs[c]]
       /\ exit' = exit

\* the process resources of the ledger
Processes == {i \in DOMAIN resources : resources[i].type = "process"}

\* triggerCleanup(signal); kills gives, per process, what process.kill(pid, 0)
\* and process.kill(pid) do
TriggerCleanup(signal) ==
  /\ exit = "running"
  /\ Len(calls) < MaxCalls
  /\ Len(resources) + Len(calls) < MaxCleanupSize
  /\ IF AlreadyShuttingDown
     THEN /\ calls' = Append(calls, [signal |-> signal, ran |-> FALSE,
                                     state |-> "resolved"])
          /\ UNCHANGED <<isShuttingDown, cleanupPromise, resourcesToCleanup,
                         teardown, issued, replies, exit>>
     ELSE \E kills \in [Processes -> KillResults \X KillResults] :
          LET run == [i \in DOMAIN resources |->
                        IF resources[i].type = "docker"
                        THEN [issued |-> <<"inspect">>, replies |-> <<>>,
                              end |-> "inspect"]
                        ELSE CleanupProcess(kills[i][1], kills[i][2])]
              td == [i \in DOMAIN resources |-> run[i].end]
          IN /\ isShuttingDown' = TRUE
             /\ resourcesToCleanup' = Reverse([i \in DOMAIN resources |-> i])
             /\ teardown' = td
             /\ issued' = [i \in DOMAIN resources |-> issued[i] \o run[i].issued]
             /\ replies' = [i \in DOMAIN resources |-> replies[i] \o run[i].replies]
             /\ AfterPromiseAll(PromiseAll(td, DOMAIN resources),
                                Append(calls, [signal |-> signal, ran |-> TRUE,
                                               state |-> "awaiting"]))
  /\ UNCHANGED <<resources, shouldExit, command>>
  /\ UNCHANGED outsideCleanup

\* the docker call that cleanupDockerContainer(i) awaits settles with res
ContainerCallSettles(i, res) ==
  /\ exit = "running"
  /\ teardown[i] \in InFlight
  /\ res \in (IF teardown[i] = "inspect" THEN InspectResults ELSE CallResults)
  /\ LET pos == CleanupDockerContainer(teardown[i], res)
         td == [teardown EXCEPT ![i] = pos]
     IN /\ teardown' = td
        /\ issued' = [issued EXCEPT ![i] = IF pos \in InFlight THEN Append(@, pos) ELSE @]
        /\ replies' = [replies EXCEPT ![i] = Append(@, res)]
        /\ IF cleanupPromise = "pending"
           THEN AfterPromiseAll(PromiseAll(td, Range(resourcesToCleanup)), calls)
           ELSE UNCHANGED <<cleanupPromise, calls, exit>>
  /\ UNCHANGED <<resources, isShuttingDown, shouldExit, resourcesToCleanup, command>>
  /\ UNCHANGED outsideCleanup

\* testCommand: executeWorkflow has resolved, the command returns
WorkflowSucceeds ==
  /\ exit = "running"
  /\ command = "running"
  /\ command' = "returned"
  /\ UNCHANGED <<resources, isShuttingDown, shouldExit, cleanupPromise,
                 resourcesToCleanup, teardown, issued, replies, calls, exit>>
  /\ UNCHANGED outsideCleanup

\* testCommand: loading the configuration or executeWorkflow has rejected;
\* the catch logs and calls process.exit(1)
WorkflowFails ==
  /\ exit = "running"
  /\ command = "running"
  /\ command' = "returned"
  /\ exit' = "exit1"
  /\ UNCHANGED <<resources, isShuttingDown, shouldExit, cleanupPromise,
                 resourcesToCleanup, teardown, issued, replies, calls>>
  /\ UNCHANGED outsideCleanup

\* the command has returned and no call is pending: the event loop is empty
\* and the process ends with code 0
ProcessEnds ==
  /\ exit = "running"
  /\ command = "returned"
  /\ \A i \in DOMAIN teardown : teardown[i] \notin InFlight
  /\ exit' = "exit0"
  /\ UNCHANGED <<resources, isShuttingDown, shouldExit, cleanupPromise,
                 resourcesToCleanup, teardown, issued, replies, calls, command>>
  /\ UNCHANGED outsideCleanup

CleanupNext ==
  \/ \E type \in ResourceTypes : Register(type)
  \/ \E signal \in Signals : TriggerCleanup(signal)
  \/ \E i \in DOMAIN teardown, res \in InspectResults \cup CallResults :
       ContainerCallSettles(i, res)
  \/ WorkflowSucceeds
  \/ WorkflowFails
  \/ ProcessEnds

SpecCleanup == CleanupInit /\ [][CleanupNext]_vars

\* ------------------------------------------------- claims on the cleanup
\* how many times the teardown of resource i has been started
TeardownStarts(i) ==
  Cardinality({k \in DOMAIN issued[i] : issued[i][k] \in {"inspect", "probe"}})

\* the resources the triggered teardown covers
Snapshot == Range(resourcesToCleanup)
\* every teardown of the triggered sequence has settled
TeardownSettled == \A i \in Snapshot : teardown[i] \in Settling

\* C12: whatever number of triggerCleanup calls arrive, from whatever mix of
\* sources, the teardown sequence runs at most once, and the teardown of
\* each resource of the ledger it ran over has been started exactly once.
C12_TeardownAtMostOnce ==
  /\ Cardinality({c \in DOMAIN calls : calls[c].ran}) <= 1
  /\ \A i \in DOMAIN resources : TeardownStarts(i) <= 1
  /\ calls # <<>> => isShuttingDown
  /\ isShuttingDown =>
       /\ \E c \in DOMAIN calls : calls[c].ran
       /\ \A i \in Snapshot : TeardownStarts(i) = 1

C12_Witness ==
  /\ Len(calls) = 2
  /\ calls[1].signal = "SIGINT" /\ calls[2].signal = "manual"
  /\ Len(resources) = 2
  /\ resources[1].type = "docker" /\ resources[2].type = "process"
  /\ \A i \in DOMAIN resources : TeardownStarts(i) = 1
  /\ teardown[1] = "inspect"

\* C13: the promise of a triggerCleanup call made while a teardown is in
\* flight does not resolve before that teardown has completed.
C13_LaterCallAwaitsTeardown ==
  \A c \in DOMAIN calls :
    (~calls[c].ran /\ calls[c].state = "resolved") => TeardownSettled

\* C14: for resources registered X then Y, every teardown step of Y has
\* completed before any teardown step of X begins.
C14_StrictLifo ==
  \A x, y \in Snapshot :
    (x < y /\ issued[x] # <<>>) => teardown[y] \in Settling

\* C15: a failed teardown does not keep the other teardowns from running to
\* completion; with shouldExit the process does not exit before they have
\* settled.
C15_ExhaustiveBeforeExit ==
  (isShuttingDown /\ command = "running" /\ exit # "running") => TeardownSettled

\* C16: when the process exits, on success, on failure or on a signal, the
\* teardown of every resource registered during the run has been attempted.
C16_CleanupBeforeExit ==
  exit # "running" => \A i \in DOMAIN resources : TeardownStarts(i) >= 1

Containers == {i \in DOMAIN resources : resources[i].type = "docker"}
\* the teardown of i made the call step and the call answered res
Answered(i, step, res) ==
  \E k \in DOMAIN replies[i] : issued[i][k] = step /\ replies[i][k] = res
Called(i, step) == \E k \in DOMAIN issued[i] : issued[i][k] = step
\* a teardown call answered with an error that is not 'not found'
SomeTeardownError ==
  \E i \in DOMAIN resources : \E k \in DOMAIN replies[i] : replies[i][k] \in {"error", "EPERM"}
\* triggerCleanup took its failure path: the catch behind the await
FailurePath == cleanupPromise = "rejected"

\* C25: the teardown of a container calls inspect, then stop exactly when
\* inspect reported the container running, then remove exactly when the
\* container was not running or stop succeeded; after a failed stop remove
\* is not called.
C25_ContainerTeardownSteps ==
  \A i \in Containers :
    /\ issued[i] \in {<<>>, <<"inspect">>, <<"inspect", "stop">>,
                      <<"inspect", "stop", "remove">>, <<"inspect", "remove">>}
    /\ Called(i, "stop") <=> Answered(i, "inspect", "running")
    /\ Called(i, "remove") <=>
         (Answered(i, "inspect", "stopped") \/ Answered(i, "stop", "ok"))
    /\ Answered(i, "stop", "error") => (~Called(i, "remove") /\ teardown[i] = "failed")

C25_Witness ==
  \E i, j \in Containers :
    /\ issued[i] = <<"inspect", "stop">> /\ replies[i] = <<"running", "error">>
    /\ issued[j] = <<"inspect", "remove">> /\ replies[j] = <<"stopped", "ok">>

\* C26: a 'no such container' answer of inspect, stop or remove ends the
\* teardown of that container as a success; the cleanup takes its failure
\* path only through another error, and the other resources are torn down
\* all the same.
C26_NotFoundIsCleaned ==
  /\ \A i \in Containers :
       (\E step \in InFlight : Answered(i, step, "nosuch")) => teardown[i] = "done"
  /\ (FailurePath \/ (exit = "exit1" /\ command = "running")) => SomeTeardownError
  /\ (isShuttingDown /\ ~SomeTeardownError /\ exit = "running") =>
       \A i \in Snapshot : teardown[i] \in InFlight \cup {"done"}
  /\ (cleanupPromise = "resolved" \/ (exit = "exit0" /\ command = "running")) =>
       \A i \in Snapshot : teardown[i] = "done"

C26_Witness ==
  /\ cleanupPromise = "resolved"
  /\ \E i, j \in Containers :
       /\ replies[i] = <<"running", "nosuch">>
       /\ replies[j] = <<"running", "ok", "ok">>

\* C27: the teardown of a process probes with signal 0 first; the
\* termination signal is sent exactly when the probe succeeded; ESRCH at
\* the probe or at the termination ends the teardown as a success.
C27_ProcessTeardownSteps ==
  \A i \in Processes :
    /\ issued[i] \in {<<>>, <<"probe">>, <<"probe", "kill">>}
    /\ Called(i, "kill") <=> Answered(i, "probe", "ok")
    /\ (Answered(i, "probe", "ESRCH") \/ Answered(i, "kill", "ESRCH")) =>
         teardown[i] = "done"
    /\ teardown[i] = "failed" =>
         (Answered(i, "probe", "EPERM") \/ Answered(i, "kill", "EPERM"))

C27_Witness ==
  \E i, j \in Processes :
    /\ replies[i] = <<"ESRCH">> /\ teardown[i] = "done"
    /\ replies[j] = <<"ok", "ESRCH">> /\ teardown[j] = "done"

\* a teardown of the triggered sequence has failed
SomeTeardownFailed == \E i \in Snapshot : teardown[i] = "failed"

\* C28: whatever teardown fails, the promise of the triggerCleanup call that
\* ran the sequence resolves and no call's promise rejects; the process
\* reports the failure code only for a failed workflow, never for a failed
\* teardown.
C28_TeardownFailureNotEscalated ==
  /\ \A k \in DOMAIN calls : calls[k].state # "rejected"
  /\ SomeTeardownFailed => \A k \in DOMAIN calls : calls[k].state = "resolved"
  /\ exit = "exit1" => command = "returned"

\* C29: once the triggered teardown has completed, the ledger holds none of
\* the resources it tore down.
C29_LedgerReleased ==
  (exit = "running" /\ isShuttingDown /\ TeardownSettled
     /\ cleanupPromise \in {"resolved", "rejected"}) =>
    \A i \in DOMAIN resources : i \notin Snapshot

\* C35: a process that ends because of an error never ends with code 0: not
\* after a failed workflow, and not after an uncaught top-level error whose
\* handler ran the cleanup.
C35_ErrorNeverExitsZero ==
  exit = "exit0" =>
    ~\E k \in DOMAIN calls :
       calls[k].ran /\ calls[k].signal = "uncaughtException"

\* C39: when triggerCleanup ends the process, every resource registered
\* before the exit, also one registered by a running task while the
\* teardown was in flight, has had a teardown attempt.
C39_LateRegistrationTornDown ==
  (isShuttingDown /\ exit # "running" /\ command = "running") =>
    \A i \in DOMAIN resources : TeardownStarts(i) >= 1

\* ===========================================================================
\* TaskExecutor.retryOperation (core/executor.ts)
\*
\* An error is named by the invocation of operation() that raised it.
\* Delays are in milliseconds.
\* ===========================================================================

\* ---------------------------------------------------------------- bounds
\* options.attempts of the calls explored
MaxAttempts == 4
\* initialDelay and maxDelay of the calls explored
MaxDelay == 3

\* ------------------------------------------------------------ the inputs
\* TaskExecutor.DEFAULT_RETRY_OPTIONS
DefaultRetryOptions ==
  [attempts |-> 3, initialDelay |-> 1000, maxDelay |-> 10000, factor |-> <<2, 1>>]

\* the options executeDocker builds for its health check: retries 5,
\* interval 2000, maxDelay 10000, factor 1.5
HealthRetryOptions ==
  [attempts |-> 5, initialDelay |-> 2000, maxDelay |-> 10000, factor |-> <<3, 2>>]

\* the RetryOptions explored: those the program uses and every small one,
\* factor 1 and 2, initialDelay below and above maxDelay
RetryOptionSets ==
  {DefaultRetryOptions, HealthRetryOptions} \cup
  [attempts : 0..MaxAttempts, initialDelay : 1..MaxDelay, maxDelay : 1..MaxDelay,
   factor : {<<1, 1>>, <<2, 1>>}]

\* what operation() can resolve to: waitForService resolves to a boolean,
\* docker.pull and container.start to nothing
Values(op) == IF op = "waitForService" THEN {"true", "false"} ELSE {"undefined"}

\* waitForService with a tcp or http check catches every error of its probe
\* and resolves to false
CanReject(op) == op # "waitForService"

\* new RetryError(message, attempts, originalError)
RetryError(n, cause) ==
  [kind |-> "RetryError", value |-> "undefined", attempts |-> n, cause |-> cause]
Returned(v) == [kind |-> "returned", value |-> v, attempts |-> 0, cause |-> 0]

\* Math.min(delay * factor, maxDelay)
NextDelay(d, opts) == Min((d * opts.factor[1]) \div opts.factor[2], opts.maxDelay)

\* "if (attempt === options.attempts) break" left out
LastAttemptNever(a, n) == FALSE

\* the test before the wait
LastAttempt(a, n) == a = n

\* the head of the for loop with attempt = a: call operation(), or leave the
\* loop and throw the RetryError
LoopHead(a, opts, err, inv) ==
  /\ attempt' = a
  /\ IF a <= opts.attempts
     THEN /\ invocations' = inv + 1
          /\ rpc' = "call"
          /\ retryResult' = NoRetryResult
     ELSE /\ invocations' = inv
          /\ rpc' = "thrown"
          /\ retryResult' = RetryError(opts.attempts, err)

\* retryOperation(op, opts) up to its first await
RetryEnter(op, opts) ==
  /\ operation' = op
  /\ options' = opts
  /\ delay' = opts.initialDelay
  /\ lastError' = 0
  /\ waits' = <<>>
  /\ LoopHead(1, opts, 0, 0)

\* ------------------------------------------------------------------ Init
RetryInit ==
  /\ options \in RetryOptionSets
  /\ operation = "any" /\ attempt = 0 /\ delay = 0 /\ lastError = 0
  /\ invocations = 0 /\ waits = <<>> /\ rpc = "start"
  /\ retryResult = NoRetryResult
  /\ SchedulerIdle /\ CleanupIdle /\ DockerIdle /\ TaskIdle /\ HealthIdle /\ LogIdle

\* --------------------------------------------------------------- actions
RetryOperation ==
  /\ rpc = "start"
  /\ RetryEnter(operation, options)
  /\ UNCHANGED outsideRetry

\* operation() resolves to v: "return await operation()"
OperationResolves(v) ==
  /\ rpc = "call"
  /\ v \in Values(operation)
  /\ rpc' = "returned"
  /\ retryResult' = Returned(v)
  /\ UNCHANGED <<operation, options, attempt, delay, lastError, invocations, waits>>
  /\ UNCHANGED outsideRetry

\* operation() rejects: the catch block up to the break or to the wait
OperationRejects ==
  /\ rpc = "call"
  /\ CanReject(operation)
  /\ lastError' = invocations
  /\ IF LastAttempt(attempt, options.attempts)
     THEN /\ rpc' = "thrown"
          /\ retryResult' = RetryError(options.attempts, invocations)
          /\ waits' = waits
     ELSE /\ rpc' = "wait"
          /\ retryResult' = retryResult
          /\ waits' = Append(waits, delay)
  /\ UNCHANGED <<operation, options, attempt, delay, invocations>>
  /\ UNCHANGED outsideRetry

\* the timer fires: the delay is updated and the loop goes round
WaitElapses ==
  /\ rpc = "wait"
  /\ delay' = NextDelay(delay, options)
  /\ LoopHead(attempt + 1, options, lastError, invocations)
  /\ UNCHANGED <<operation, options, lastError, waits>>
  /\ UNCHANGED outsideRetry

RetryNext ==
  \/ RetryOperation
  \/ \E v \in {"true", "false", "undefined"} : OperationResolves(v)
  \/ OperationRejects
  \/ WaitElapses

SpecRetry == RetryInit /\ [][RetryNext]_vars

\* --------------------------------------------------- claims on the retry
\* C20: with attempts = N >= 1 and an operation that fails every time,
\* retryOperation calls the operation exactly N times, waits only between
\* two attempts (N - 1 waits), and throws a RetryError whose attempts is N
\* and whose cause is the error of the N-th invocation.
C20_AlwaysFailingRetry ==
  /\ (rpc = "thrown" /\ options.attempts >= 1) =>
       /\ invocations = options.attempts
       /\ Len(waits) = options.attempts - 1
       /\ retryResult = RetryError(options.attempts, options.attempts)
  /\ rpc = "wait" => (Len(waits) = invocations /\ invocations < options.attempts)
  /\ rpc = "call" => (Len(waits) = invocations - 1 /\ invocations <= options.attempts)
  /\ (rpc = "returned" /\ options.attempts >= 1) => lastError < invocations

C20_Witness ==
  /\ rpc = "thrown"
  /\ options = DefaultRetryOptions
  /\ invocations = 3
  /\ waits = <<1000, 2000>>
  /\ retryResult.cause = 3

RECURSIVE Pow(_, _)
Pow(b, e) == IF e = 0 THEN 1 ELSE b * Pow(b, e - 1)

\* min(initialDelay * factor^(k-1), maxDelay)
CappedDelay(opts, k) ==
  Min((opts.initialDelay * Pow(opts.factor[1], k - 1)) \div Pow(opts.factor[2], k - 1),
      opts.maxDelay)

\* C21: the wait before retry k is min(initialDelay * factor^(k-1), maxDelay);
\* no wait exceeds maxDelay, the first one included.
C21_WaitsCapped ==
  \A k \in DOMAIN waits :
    /\ waits[k] = CappedDelay(options, k)
    /\ waits[k] <= options.maxDelay

\* ===========================================================================
\* TaskExecutor.executeDocker (core/executor.ts): pull, create, register,
\* start, health check.  Its three retryOperation calls run the steps of
\* retryOperation above.
\* ===========================================================================

\* ------------------------------------------------------------ the inputs
\* task.image; "" is a task without image
Images == {"", "postgres:15", "nginx:alpine", "my-web-app", "alpine"}

\* image.includes(word)
Includes(image, word) ==
  <<image, word>> \in {<<"postgres:15", "postgres">>, <<"nginx:alpine", "nginx">>,
                       <<"my-web-app", "web">>}

\* task.health_check as declared in the configuration
DeclaredChecks ==
  {[type |-> "tcp", host |-> "localhost", port |-> 5432],
   [type |-> "http", host |-> "localhost", port |-> 3000]}

Tasks ==
  [image : Images, container_name : BOOLEAN, health_check : DeclaredChecks \cup {NoCheck}]

determineHealthCheckType(image) ==
  IF Includes(image, "nginx") \/ Includes(image, "web") THEN "http" ELSE "tcp"

getDefaultPort(image) ==
  IF Includes(image, "postgres") THEN 5432
  ELSE IF Includes(image, "redis") THEN 6379
  ELSE IF Includes(image, "mysql") THEN 3306
  ELSE IF Includes(image, "mongodb") THEN 27017
  ELSE IF Includes(image, "nginx") THEN 80
  ELSE 8080

\* the ServiceHealthCheck executeDocker builds
BuiltHealthCheck(t) ==
  [type |-> determineHealthCheckType(t.image), host |-> "localhost",
   port |-> getDefaultPort(t.image)]

\* "if (task.type === 'docker' && task.container_name)"
HealthGated(t) == t.container_name

\* a bug: the container is given no handle
RegisterContainerNothing(ledger) == ledger

\* CleanupManager.registerContainer(container.id)
RegisterContainer(ledger) ==
  Append(ledger, [id |-> Len(ledger) + 1, type |-> "docker"])

\* ------------------------------------------------------------------ Init
DockerInit ==
  /\ dockerTask \in Tasks
  /\ dpc = "begin" /\ pulls = 0 /\ startCalls = 0 /\ started_ok = FALSE
  /\ probes = 0 /\ healthCheck = NoCheck /\ dockerResult = "none"
  /\ SchedulerIdle /\ CleanupIdle /\ RetryIdle /\ TaskIdle /\ HealthIdle /\ LogIdle

\* --------------------------------------------------------------- actions
\* executeDocker up to its first await: the image test, then the pull
ExecuteDocker ==
  /\ dpc = "begin"
  /\ IF dockerTask.image = ""
     THEN /\ dpc' = "done"
          /\ dockerResult' = "TaskError"
          /\ UNCHANGED retryVars
     ELSE /\ dpc' = "pull"
          /\ dockerResult' = dockerResult
          /\ RetryEnter("pull", DefaultRetryOptions)
  /\ UNCHANGED <<dockerTask, pulls, startCalls, started_ok, probes, healthCheck>>
  /\ UNCHANGED <<healthVars, logVars, schedulerVars, cleanupVars, taskVars>>

\* the retryOperation around docker.pull has settled
PullSettled ==
  /\ dpc = "pull"
  /\ rpc \in {"returned", "thrown"}
  /\ pulls' = invocations
  /\ IF rpc = "thrown"
     THEN dpc' = "done" /\ dockerResult' = "RetryError"
     ELSE dpc' = "create" /\ dockerResult' = dockerResult
  /\ UNCHANGED <<dockerTask, startCalls, started_ok, probes, healthCheck>>
  /\ UNCHANGED <<healthVars, logVars, schedulerVars, cleanupVars, retryVars, taskVars>>

\* docker.createContainer settles; on success the container is registered
\* and the retryOperation around container.start begins
CreateContainerSettles(ok) ==
  /\ dpc = "create"
  /\ IF ok
     THEN /\ resources' = RegisterContainer(resources)
          /\ teardown' = Append(teardown, "none")
          /\ issued' = Append(issued, <<>>)
          /\ replies' = Append(replies, <<>>)
          /\ dpc' = "start"
          /\ dockerResult' = dockerResult
          /\ RetryEnter("start", DefaultRetryOptions)
     ELSE /\ dpc' = "done"
          /\ dockerResult' = "DockerError"
          /\ UNCHANGED <<resources, teardown, issued, replies>>
          /\ UNCHANGED retryVars
  /\ UNCHANGED <<dockerTask, pulls, startCalls, started_ok, probes, healthCheck>>
  /\ UNCHANGED <<isShuttingDown, shouldExit, cleanupPromise, resourcesToCleanup,
                 calls, command, exit>>
  /\ UNCHANGED <<healthVars, logVars, schedulerVars, taskVars>>

\* the retryOperation around container.start has settled; the health check
\* follows for a task with container_name
StartSettled ==
  /\ dpc = "start"
  /\ rpc \in {"returned", "thrown"}
  /\ startCalls' = invocations
  /\ started_ok' = (rpc = "returned")
  /\ IF rpc = "thrown"
     THEN /\ dpc' = "done"
          /\ dockerResult' = "RetryError"
          /\ UNCHANGED <<healthCheck, retryVars>>
     ELSE IF HealthGated(dockerTask)
     THEN /\ dpc' = "health"
          /\ dockerResult' = dockerResult
          /\ healthCheck' = BuiltHealthCheck(dockerTask)
          /\ RetryEnter("waitForService", HealthRetryOptions)
     ELSE /\ dpc' = "done"
          /\ dockerResult' = "true"
          /\ UNCHANGED <<healthCheck, retryVars>>
  /\ UNCHANGED <<dockerTask, pulls, probes>>
  /\ UNCHANGED <<healthVars, logVars, schedulerVars, cleanupVars, taskVars>>

\* the retryOperation around HealthChecker.waitForService has settled
HealthSettled ==
  /\ dpc = "health"
  /\ rpc \in {"returned", "thrown"}
  /\ probes' = invocations
  /\ dpc' = "done"
  /\ dockerResult' = (IF rpc = "thrown" THEN "RetryError"
                      ELSE IF retryResult.value = "true" THEN "true"
                      ELSE "HealthCheckError")
  /\ UNCHANGED <<dockerTask, pulls, startCalls, started_ok, healthCheck>>
  /\ UNCHANGED <<healthVars, logVars, schedulerVars, cleanupVars, retryVars, taskVars>>

DockerNext ==
  \/ ExecuteDocker
  \/ PullSettled
  \/ \E ok \in BOOLEAN : CreateContainerSettles(ok)
  \/ StartSettled
  \/ HealthSettled
  \/ \E v \in {"true", "false", "undefined"} : OperationResolves(v)
  \/ OperationRejects
  \/ WaitElapses

SpecDocker == DockerInit /\ [][DockerNext]_vars

\* ------------------------------------------- claims on the docker runner
\* the container of the task has a handle in the ledger
Registered == resources # <<>>

\* C17: the container has a handle in the ledger only after its start has
\* been confirmed, and has one from the confirmed start on, before the
\* health check begins.
C17_RegisteredOnlyAfterStart ==
  /\ Registered => started_ok
  /\ started_ok => Registered

\* C18: an unhealthy probe is followed by a wait and another probe, up to
\* retries probes; HealthCheckError is raised only after retries unhealthy
\* probes.
C18_HealthPollingRetries ==
  /\ dockerResult = "HealthCheckError" => probes = HealthRetryOptions.attempts
  /\ (dpc = "done" /\ probes > 0 /\ probes < HealthRetryOptions.attempts) =>
       dockerResult = "true"

\* C19: a task is health-gated exactly when it declares a health_check: with
\* one it succeeds only after a healthy probe of the declared check, without
\* one it succeeds with no probe made.
C19_GatedIffDeclared ==
  dockerResult = "true" =>
    IF dockerTask.health_check # NoCheck
    THEN probes >= 1 /\ healthCheck = dockerTask.health_check
    ELSE probes = 0

\* C31: after a failed health check executeDocker has failed, the runner
\* has issued no stop or remove for the container, and the container's
\* handle is still in the ledger for a later triggerCleanup.
C31_HealthFailureKeepsContainer ==
  dockerResult = "HealthCheckError" =>
    /\ dpc = "done"
    /\ started_ok
    /\ \A i \in DOMAIN issued : issued[i] = <<>>
    /\ \E i \in DOMAIN resources : resources[i].type = "docker"

C31_Witness ==
  /\ dockerResult = "HealthCheckError"
  /\ probes >= 1
  /\ Len(resources) = 1 /\ teardown = <<"none">>

\* ===========================================================================
\* TaskExecutor.executeTask and executeCommand (core/executor.ts); a docker
\* task runs the steps of executeDocker above.
\* ===========================================================================

\* ---------------------------------------------------------------- bounds
\* names of environment variables
MaxKeys == 2

\* ------------------------------------------------------------ the inputs
Keys == 1..MaxKeys

\* the environments that give the value v to some of the keys; every source
\* gives its own value, so that a merged value tells where it came from
Envs(v) == UNION {[S -> {v}] : S \in SUBSET Keys}

\* task.type; "script" is a type executeTask does not know
TaskTypes == {"command", "docker", "script"}

\* Object.assign(target, source)
Assign(target, source) ==
  [k \in DOMAIN target \cup DOMAIN source |->
     IF k \in DOMAIN source THEN source[k] ELSE target[k]]

\* EnvLoader.mergeEnv(...sources): Object.assign({}, ...sources)
RECURSIVE ObjectAssign(_, _)
ObjectAssign(target, sources) ==
  IF sources = <<>> THEN target
  ELSE ObjectAssign(Assign(target, Head(sources)), Tail(sources))

MergeEnv(sources) == ObjectAssign(NoEnv, sources)

\* executeTask: taskEnv, task.env with the variables of task.env_file
TaskEnv(t, file) == IF t.env_file THEN MergeEnv(<<t.env, file>>) ELSE t.env

\* executeCommand: envVars, the env given to spawn
EnvVars(t, ctx, penv) == MergeEnv(<<penv, ctx.env, t.env>>)

\* a bug: a catch that handles TaskError only and rethrows the rest
ExecuteTaskCatchTaskErrorOnly(err) == IF err = "TaskError" THEN "false" ELSE "throw"

\* the catch of executeTask: logs by error kind and returns false
ExecuteTaskCatch(err) == "false"

\* a bug: a command that failed is handed back to be run again
CommandSettledRerun(code) == IF code = "0" THEN "done" ELSE "begin"

\* the promise of executeCommand settles once, from 'error' or 'close', and
\* executeTask returns
CommandSettled(code) == "done"

\* ------------------------------------------------------------------ Init
TaskInit ==
  /\ \E type \in TaskTypes :
       IF type = "command"
       THEN /\ \E c, f \in BOOLEAN : \E e \in Envs("task") :
                 taskArg = [type |-> type, command |-> c, env |-> e, env_file |-> f]
            /\ fileEnv \in (IF taskArg.env_file THEN Envs("file") ELSE {NoEnv})
            /\ \E d \in BOOLEAN : \E e \in Envs("context") :
                 context = [dryRun |-> d, env |-> e]
            /\ processEnv \in Envs("process")
            /\ dockerTask = NoTask
       ELSE /\ taskArg = [type |-> type, command |-> FALSE, env |-> NoEnv,
                          env_file |-> FALSE]
            /\ fileEnv = NoEnv
            /\ \E d \in BOOLEAN : context = [dryRun |-> d, env |-> NoEnv]
            /\ processEnv = NoEnv
            /\ dockerTask \in (IF type = "docker" THEN Tasks ELSE {NoTask})
  /\ tpc = "begin" /\ spawns = 0 /\ spawnEnv = NoEnv /\ childPid = 0
  /\ childExit = "none" /\ taskResult = "none"
  /\ dpc = "idle" /\ pulls = 0 /\ startCalls = 0 /\ started_ok = FALSE
  /\ probes = 0 /\ healthCheck = NoCheck /\ dockerResult = "none"
  /\ SchedulerIdle /\ CleanupIdle /\ RetryIdle /\ HealthIdle /\ LogIdle

\* --------------------------------------------------------------- actions
\* executeTask up to its first await: the dry-run test, taskEnv, the switch
\* on task.type; for a command, executeCommand up to the promise it returns
\* (pid: spawn has given the child a pid)
ExecuteTask ==
  /\ tpc = "begin"
  /\ IF context.dryRun
     THEN /\ tpc' = "done" /\ taskResult' = "true"
          /\ UNCHANGED <<spawns, spawnEnv, childPid, dpc, cleanupVars>>
     ELSE IF taskArg.type = "command"
     THEN IF ~taskArg.command
          THEN /\ tpc' = "done" /\ taskResult' = ExecuteTaskCatch("TaskError")
               /\ UNCHANGED <<spawns, spawnEnv, childPid, dpc, cleanupVars>>
          ELSE \E pid \in BOOLEAN :
               /\ tpc' = "command" /\ taskResult' = taskResult
               /\ spawns' = spawns + 1
               /\ spawnEnv' = EnvVars(taskArg, [context EXCEPT !.env = TaskEnv(taskArg, fileEnv)],
                                      processEnv)
               /\ IF pid
                  THEN /\ childPid' = Len(resources) + 1
                       /\ resources' = Append(resources, [id |-> Len(resources) + 1,
                                                          type |-> "process"])
                       /\ teardown' = Append(teardown, "none")
                       /\ issued' = Append(issued, <<>>)
                       /\ replies' = Append(replies, <<>>)
                  ELSE UNCHANGED <<childPid, resources, teardown, issued, replies>>
               /\ UNCHANGED <<dpc, isShuttingDown, shouldExit, cleanupPromise,
                              resourcesToCleanup, calls, command, exit>>
     ELSE IF taskArg.type = "docker"
     THEN /\ tpc' = "docker" /\ dpc' = "begin" /\ taskResult' = taskResult
          /\ UNCHANGED <<spawns, spawnEnv, childPid, cleanupVars>>
     ELSE /\ tpc' = "done" /\ taskResult' = ExecuteTaskCatch("TaskError")
          /\ UNCHANGED <<spawns, spawnEnv, childPid, dpc, cleanupVars>>
  /\ UNCHANGED <<taskArg, fileEnv, context, processEnv, childExit>>
  /\ UNCHANGED <<dockerTask, pulls, startCalls, started_ok, probes, healthCheck,
                 dockerResult>>
  /\ UNCHANGED <<healthVars, logVars, schedulerVars, retryVars>>

\* the child emits 'error': it could not be spawned
CommandErrors ==
  /\ tpc = "command"
  /\ childPid = 0
  /\ childExit' = "error"
  /\ tpc' = CommandSettled("error")
  /\ taskResult' = ExecuteTaskCatch("TaskError")
  /\ UNCHANGED <<taskArg, fileEnv, context, processEnv, spawns, spawnEnv, childPid>>
  /\ UNCHANGED <<healthVars, logVars, schedulerVars, cleanupVars, retryVars, dockerVars>>

\* the child emits 'close' with its exit code (null: ended by a signal)
CommandCloses(code) ==
  /\ tpc = "command"
  /\ childPid # 0
  /\ childExit' = code
  /\ tpc' = CommandSettled(code)
  /\ taskResult' = (IF code = "0" THEN "true" ELSE ExecuteTaskCatch("TaskError"))
  /\ UNCHANGED <<taskArg, fileEnv, context, processEnv, spawns, spawnEnv, childPid>>
  /\ UNCHANGED <<healthVars, logVars, schedulerVars, cleanupVars, retryVars, dockerVars>>

\* executeDocker has settled: its value is returned, its error is caught
DockerReturns ==
  /\ tpc = "docker"
  /\ dpc = "done"
  /\ tpc' = "done"
  /\ taskResult' = (IF dockerResult = "true" THEN "true"
                    ELSE ExecuteTaskCatch(dockerResult))
  /\ UNCHANGED <<taskArg, fileEnv, context, processEnv, spawns, spawnEnv, childPid,
                 childExit>>
  /\ UNCHANGED <<healthVars, logVars, schedulerVars, cleanupVars, retryVars, dockerVars>>

TaskNext ==
  \/ ExecuteTask
  \/ CommandErrors
  \/ \E code \in {"0", "1", "null"} : CommandCloses(code)
  \/ DockerReturns
  \/ ExecuteDocker
  \/ PullSettled
  \/ \E ok \in BOOLEAN : CreateContainerSettles(ok)
  \/ StartSettled
  \/ HealthSettled
  \/ \E v \in {"true", "false", "undefined"} : OperationResolves(v)
  \/ OperationRejects
  \/ WaitElapses

SpecTask == TaskInit /\ [][TaskNext]_vars

\* -------------------------------------------------- claims on executeTask
\* the failures of a task that are not programming errors
OrdinaryFailure ==
  \/ childExit \in {"1", "null", "error"}
  \/ dockerResult \in {"RetryError", "HealthCheckError"}

\* C22: executeTask never rejects; a command that exits with a non-zero
\* code or cannot be spawned, exhausted retries around pull or start, and an
\* exhausted health check all make it resolve to false.
C22_TaskFailureResolvesFalse ==
  /\ taskResult # "throw"
  /\ (tpc = "done" /\ OrdinaryFailure) => taskResult = "false"

C22_Witness ==
  /\ taskResult = "false"
  /\ dockerResult = "RetryError"
  /\ startCalls = DefaultRetryOptions.attempts

\* C23: the env given to a spawned command is process.env overridden by the
\* context env overridden by task.env: every key has the value of the last
\* of the three that defines it, and a key only the context defines is
\* there with the context's value (tasks without env_file).
C23_SpawnEnvPrecedence ==
  (spawns > 0 /\ ~taskArg.env_file) =>
    \A k \in Keys :
      IF k \in DOMAIN taskArg.env
      THEN k \in DOMAIN spawnEnv /\ spawnEnv[k] = "task"
      ELSE IF k \in DOMAIN context.env
      THEN k \in DOMAIN spawnEnv /\ spawnEnv[k] = "context"
      ELSE IF k \in DOMAIN processEnv
      THEN k \in DOMAIN spawnEnv /\ spawnEnv[k] = "process"
      ELSE k \notin DOMAIN spawnEnv

\* in dry-run mode executeTask spawns nothing, calls no container API,
\* registers nothing and resolves to true
DryRunNoSideEffect ==
  context.dryRun =>
    /\ spawns = 0 /\ dpc = "idle" /\ pulls = 0 /\ startCalls = 0 /\ probes = 0
    /\ resources = <<>>
    /\ tpc = "done" => taskResult = "true"

\* C24: a dry run has no side effect and every task reports success, so a
\* workflow whose depends_on is acyclic and names only its own tasks, and
\* in which every executeTask resolves to true, ends in success.
C24_DryRunWorkflowSucceeds ==
  (Acyclic /\ NamesOnlyTasks /\ pc = "done"
     /\ \A n \in Names : outcome[n] \in {"none", "true"}) =>
    result = Resolved

\* C30: once the process of a command has exited, the ledger holds no
\* handle for its pid.
C30_LedgerHoldsLiveOnly ==
  childExit \in {"0", "1", "null"} =>
    \A i \in DOMAIN resources : resources[i].id # childPid

\* C32: one execution of a command task spawns at most one process; a
\* command that exits with a non-zero code or cannot be started has been
\* spawned once and is not run again.
C32_CommandSpawnedOnce ==
  /\ spawns <= 1
  /\ invocations > 0 => spawns = 0
  /\ childExit \in {"1", "null", "error"} => (spawns = 1 /\ tpc = "done")

C32_Witness ==
  /\ spawns = 1
  /\ childExit \in {"1", "error"}
  /\ taskResult = "false"

\* ===========================================================================
\* HealthChecker.waitForService, checkTCP, checkHTTP (utils/health.ts).
\* Time is counted in ticks of the socket / request timeout, which is armed
\* with check.interval.
\* ===========================================================================

\* ---------------------------------------------------------------- bounds
\* check.interval, in ticks
MaxInterval == 3

\* ------------------------------------------------------------ the inputs
\* res.statusCode
StatusCodes ==
  {[defined |-> TRUE, code |-> c] : c \in {200, 302, 399, 400, 404, 500}} \cup {NoStatus}

\* check.type: "grpc" is a type waitForService does not support.
\* check.customCheck: absent, or a function that resolves true, resolves
\* false, rejects, or throws when called.
ServiceChecks ==
  {c \in [type : {"tcp", "http", "custom", "grpc"}, path : BOOLEAN,
          interval : 1..MaxInterval,
          customCheck : {"none", "resolvesTrue", "resolvesFalse", "rejects",
                         "throws"}] :
     /\ c.type # "custom" => c.customCheck = "none"
     /\ c.type # "http" => ~c.path
     /\ c.type \in {"custom", "grpc"} => c.interval = 1}

\* a bug: the validation of a custom check is missing
CustomInvalidNever(c) == FALSE

\* "check.type === 'custom' && !check.customCheck"
CustomInvalid(c) == c.type = "custom" /\ c.customCheck = "none"

\* a bug: only server errors count as unhealthy
StatusOkBelow500(st) == st.defined /\ st.code < 500

\* "res.statusCode !== undefined && res.statusCode < 400"
StatusOk(st) == st.defined /\ st.code < 400

\* what the promise of the probe resolves to for the event that settles it
ProbeValue(c, ev) ==
  IF c.type = "tcp" THEN ev.kind = "connect"
  ELSE IF c.type = "http" THEN ev.kind = "response" /\ StatusOk(ev.status)
  ELSE ev.kind = "resolvedTrue"

\* the events a pending probe can receive after t ticks
ProbeEvents(c, t) ==
  IF c.type = "custom"
  THEN {[kind |-> (CASE c.customCheck = "resolvesTrue" -> "resolvedTrue"
                     [] c.customCheck = "resolvesFalse" -> "resolvedFalse"
                     [] OTHER -> "rejected"),
         status |-> NoStatus]}
  ELSE IF t = c.interval
  THEN {[kind |-> "timeout", status |-> NoStatus]}
  ELSE IF c.type = "tcp"
  THEN {[kind |-> k, status |-> NoStatus] : k \in {"connect", "error"}}
  ELSE {[kind |-> "response", status |-> st] : st \in StatusCodes}
         \cup {[kind |-> "error", status |-> NoStatus]}

\* ------------------------------------------------------------------ Init
HealthInit ==
  /\ check \in ServiceChecks
  /\ hpc = "begin" /\ probeCalls = <<>> /\ elapsed = 0
  /\ probePromise = "none" /\ probeEvent = NoEvent /\ waitResult = "none"
  /\ SchedulerIdle /\ CleanupIdle /\ RetryIdle /\ DockerIdle /\ TaskIdle /\ LogIdle

outsideHealth ==
  <<schedulerVars, cleanupVars, retryVars, dockerVars, taskVars, logVars>>

\* --------------------------------------------------------------- actions
\* waitForService up to its first await: the validation, then the switch on
\* check.type and the call of the probe
WaitForService ==
  /\ hpc = "begin"
  /\ IF CustomInvalid(check)
     THEN /\ waitResult' = "throw" /\ hpc' = "done"
          /\ UNCHANGED <<probeCalls, probePromise>>
     ELSE IF check.type = "tcp"
     THEN /\ probeCalls' = Append(probeCalls, "connect")
          /\ probePromise' = "pending" /\ hpc' = "probe"
          /\ waitResult' = waitResult
     ELSE IF check.type = "http"
     THEN /\ probeCalls' = Append(probeCalls, "get")
          /\ probePromise' = "pending" /\ hpc' = "probe"
          /\ waitResult' = waitResult
     ELSE IF check.type = "custom" /\ check.customCheck \notin {"none", "throws"}
     THEN /\ probeCalls' = Append(probeCalls, "customCheck")
          /\ probePromise' = "pending" /\ hpc' = "probe"
          /\ waitResult' = waitResult
     ELSE IF check.type = "custom"
     THEN \* the call itself throws; the catch logs and false is returned
          /\ probeCalls' = (IF check.customCheck = "throws"
                            THEN Append(probeCalls, "customCheck") ELSE probeCalls)
          /\ probePromise' = probePromise
          /\ waitResult' = "false" /\ hpc' = "done"
     ELSE \* default: throw new Error('Unsupported health check type'), caught
          /\ waitResult' = "false" /\ hpc' = "done"
          /\ UNCHANGED <<probeCalls, probePromise>>
  /\ UNCHANGED <<check, elapsed, probeEvent>>
  /\ UNCHANGED outsideHealth

\* a tick of the timeout passes with no event
Tick ==
  /\ hpc = "probe"
  /\ check.type \in {"tcp", "http"}
  /\ elapsed < check.interval
  /\ elapsed' = elapsed + 1
  /\ UNCHANGED <<check, hpc, probeCalls, probePromise, probeEvent, waitResult>>
  /\ UNCHANGED outsideHealth

\* the first event of the probe settles its promise and waitForService
\* returns: true if isHealthy, false otherwise, false from the catch
ProbeSettles(ev) ==
  /\ hpc = "probe"
  /\ ev \in ProbeEvents(check, elapsed)
  /\ probeEvent' = ev
  /\ probePromise' = (IF ev.kind = "rejected" THEN "rejected"
                      ELSE IF ProbeValue(check, ev) THEN "true" ELSE "false")
  /\ waitResult' = (IF ev.kind # "rejected" /\ ProbeValue(check, ev) THEN "true" ELSE "false")
  /\ hpc' = "done"
  /\ UNCHANGED <<check, probeCalls, elapsed>>
  /\ UNCHANGED outsideHealth

HealthNext ==
  \/ WaitForService
  \/ Tick
  \/ \E k \in {"connect", "error", "timeout", "response", "resolvedTrue",
                "resolvedFalse", "rejected"}, st \in StatusCodes :
       ProbeSettles([kind |-> k, status |-> st])

SpecHealth == HealthInit /\ [][HealthNext]_vars

\* ---------------------------------------------- claims on the HealthChecker
\* C33: a custom check without customCheck makes waitForService reject at
\* once: no connection, no HTTP request and no predicate call is made.
C33_CustomWithoutPredicateThrows ==
  (check.type = "custom" /\ check.customCheck = "none" /\ hpc # "begin") =>
    /\ hpc = "done"
    /\ waitResult = "throw"
    /\ probeCalls = <<>>
    /\ probeEvent = NoEvent /\ elapsed = 0

C33_Witness ==
  /\ check.type = "custom" /\ check.customCheck = "none"
  /\ waitResult = "throw"

\* C34: but for a custom check without customCheck, waitForService never
\* rejects, and once it has returned its value is true exactly when the
\* probe succeeded; refused and timed-out connections, HTTP errors and
\* status >= 400, a throwing predicate and an unsupported type give false.
\* The probe succeeded: connection established, HTTP status below 400, or
\* the predicate returned true.
C34_WaitForServiceIsBoolean ==
  ~(check.type = "custom" /\ check.customCheck = "none") =>
    /\ waitResult # "throw"
    /\ hpc = "done" =>
         /\ waitResult \in {"true", "false"}
         /\ waitResult = "true" <=>
              \/ check.type = "tcp" /\ probeEvent.kind = "connect"
              \/ check.type = "http" /\ probeEvent.kind = "response"
                   /\ probeEvent.status.defined
                   /\ probeEvent.status.code < 400
              \/ check.type = "custom" /\ probeEvent.kind = "resolvedTrue"

C34_Witness ==
  /\ check.type = "http" /\ hpc = "done"
  /\ probeEvent.kind = "response" /\ probeEvent.status.code = 404
  /\ waitResult = "false"

-----------------------------------------------------------------------------
\* LogStreamer (src/src/commands/workflow.ts:89-167)

\* the most one stream carries, a frame counting 1 + its payload's length
MaxStream == 4

\* characters of a payload: two letters, two whitespace characters, and "T"
\* for a whole text of the shape \d{4}-\d{2}-\d{2}T\d{2}:\d{2}:\d{2}.\d{3}Z
Whitespace == {" ", "\n"}
\* the Buffers that count at most room: the empty buffer, or a frame with
\* the first byte of its 8-byte header (the other seven are not read) and
\* its payload
Chunks(room) ==
  LET Chars == {"a", "e", "T"} \cup Whitespace
  IN  IF room < 1 THEN {}
      ELSE {[header |-> <<b>>, payload |-> p] :
              b \in 0..3,
              p \in UNION {[1..n -> Chars] : n \in 0..(room - 1)}}
             \cup {NoChunk}
\* the options of the constructor; filter "" is no filter
LogOptionsSet ==
  [follow : BOOLEAN, timestamps : BOOLEAN,
   filter : {<<>>, <<"e">>, <<"a", "e">>, <<" ">>}]

\* String.prototype.trim
RECURSIVE TrimStart(_)
TrimStart(d) ==
  IF d # <<>> /\ Head(d) \in Whitespace THEN TrimStart(Tail(d)) ELSE d
RECURSIVE TrimEnd(_)
TrimEnd(d) ==
  IF d # <<>> /\ d[Len(d)] \in Whitespace
    THEN TrimEnd(SubSeq(d, 1, Len(d) - 1)) ELSE d
Trim(d) == TrimEnd(TrimStart(d))

\* data.includes(filter)
DataIncludes(d, f) ==
  \E i \in 0..(Len(d) - Len(f)) : SubSeq(d, i + 1, i + Len(f)) = f

\* data.match(/^(<timestamp>)\s(.+)$/): the dot matches no line terminator
TimestampMatch(d) ==
  /\ Len(d) >= 3
  /\ d[1] = "T"
  /\ d[2] \in Whitespace
  /\ \A i \in 3..Len(d) : d[i] # "\n"

StreamTypeIsErrorNotStdout(header) == header # <<>> /\ header[1] # 1

\* streamType === 2, streamType being header[0]
StreamTypeIsError(header) == header # <<>> /\ header[1] = 2

\* processChunk(chunk) under the options o
ProcessChunk(c, o) ==
  LET data == Trim(c.payload)
  IN  IF o.filter # <<>> /\ ~DataIncludes(data, o.filter)
        THEN Null
        ELSE IF o.timestamps /\ TimestampMatch(data)
          THEN <<[message |-> SubSeq(data, 3, Len(data)),
                  isError |-> StreamTypeIsError(c.header),
                  timestamp |-> "T"]>>
          ELSE <<[message |-> data,
                  isError |-> StreamTypeIsError(c.header),
                  timestamp |-> "undefined"]>>

\* new LogStreamer(container, options)
LogInit ==
  /\ SchedulerIdle /\ CleanupIdle /\ RetryIdle /\ DockerIdle /\ TaskIdle
  /\ HealthIdle
  /\ logOptions \in LogOptionsSet
  /\ lpc = "begin" /\ currentStream = "null" /\ stream = "none"
  /\ chunk = NoChunk /\ line = Null /\ received = 0 /\ consumed = 0
  /\ delivered = 0
  /\ stopped = FALSE /\ lateLine = FALSE /\ logPromise = "none"

\* the variables no step of the LogStreamer touches
outsideLog ==
  <<schedulerVars, cleanupVars, retryVars, dockerVars, taskVars, healthVars>>

\* streamLogs(onLog) up to the await of container.logs(...)
StreamLogs ==
  /\ lpc = "begin"
  /\ lpc' = "logs"
  /\ logPromise' = "pending"
  /\ UNCHANGED <<logOptions, currentStream, stream, chunk, line, received,
                 consumed, delivered, stopped, lateLine>>
  /\ UNCHANGED outsideLog

\* container.logs resolves: the three handlers are attached and the stream
\* is kept in currentStream
LogsResolves ==
  /\ lpc = "logs"
  /\ lpc' = "streaming"
  /\ stream' = "open"
  /\ currentStream' = "stream"
  /\ UNCHANGED <<logOptions, chunk, line, received, consumed, delivered, stopped,
                 lateLine, logPromise>>
  /\ UNCHANGED outsideLog

\* container.logs rejects: the await throws out of streamLogs
LogsRejects ==
  /\ lpc = "logs"
  /\ lpc' = "done"
  /\ logPromise' = "rejected"
  /\ UNCHANGED <<logOptions, currentStream, stream, chunk, line, received,
                 consumed, delivered, stopped, lateLine>>
  /\ UNCHANGED outsideLog

\* stream.on('data'): a stream that is destroyed emits no more data
Data(c) ==
  /\ lpc = "streaming" /\ stream = "open"
  /\ consumed + 1 + Len(c.payload) <= MaxStream
  /\ consumed' = consumed + 1 + Len(c.payload)
  /\ chunk' = c
  /\ line' = ProcessChunk(c, logOptions)
  /\ received' = received + 1
  /\ delivered' = IF line' # Null THEN delivered + 1 ELSE delivered
  /\ lateLine' = (lateLine \/ (stopped /\ line' # Null))
  /\ UNCHANGED <<logOptions, lpc, currentStream, stream, stopped, logPromise>>
  /\ UNCHANGED outsideLog

\* stream.on('error'): destroy and reject
StreamError ==
  /\ lpc = "streaming" /\ stream = "open"
  /\ stream' = "destroyed"
  /\ logPromise' = "rejected"
  /\ lpc' = "done"
  /\ UNCHANGED <<logOptions, currentStream, chunk, line, received, consumed, delivered,
                 stopped, lateLine>>
  /\ UNCHANGED outsideLog

\* stream.on('end'): destroy and resolve
StreamEnd ==
  /\ lpc = "streaming" /\ stream = "open"
  /\ stream' = "destroyed"
  /\ logPromise' = "resolved"
  /\ lpc' = "done"
  /\ UNCHANGED <<logOptions, currentStream, chunk, line, received, consumed, delivered,
                 stopped, lateLine>>
  /\ UNCHANGED outsideLog

\* stop(), called by the consumer once streamLogs has been called.
\* Readable.destroy() without an error emits 'close' only: neither the
\* 'end' nor the 'error' handler runs.
Stop ==
  /\ lpc \in {"logs", "streaming", "done"}
  /\ ~stopped
  /\ stopped' = TRUE
  /\ IF currentStream # "null"
       THEN /\ stream' = "destroyed"
            /\ currentStream' = "null"
       ELSE UNCHANGED <<stream, currentStream>>
  /\ UNCHANGED <<logOptions, lpc, chunk, line, received, consumed, delivered, lateLine,
                 logPromise>>
  /\ UNCHANGED outsideLog

LogNext ==
  \/ StreamLogs
  \/ LogsResolves
  \/ LogsRejects
  \/ \E c \in Chunks(MaxStream - consumed) : Data(c)
  \/ StreamError
  \/ StreamEnd
  \/ Stop

SpecLog == LogInit /\ [][LogNext]_vars

\* C36 as stated: for the frame last processed, processChunk returns null
\* iff a filter is set and the payload does not contain it; otherwise the
\* line's message is the payload and its isError tells whether the first
\* header byte is 2.
C36_MessageIsPayload ==
  received > 0 =>
    /\ (line = Null) <=>
         (logOptions.filter # <<>>
            /\ ~DataIncludes(chunk.payload, logOptions.filter))
    /\ line # Null =>
         /\ line[1].message = chunk.payload
         /\ line[1].isError <=> (chunk.header # <<>> /\ chunk.header[1] = 2)

\* C36, amended: with data the payload without the whitespace around it,
\* processChunk returns null iff a non-empty filter is set and data does not
\* contain it; otherwise isError tells whether the first header byte is 2,
\* and the message is data, except in timestamps mode when data is a
\* timestamp, one whitespace character and a non-empty rest on one line:
\* then timestamp is the former and the message the rest.
C36_MessageIsTrimmedPayload ==
  received > 0 =>
    \E i \in 1..(Len(chunk.payload) + 1), j \in 0..Len(chunk.payload) :
      LET data == SubSeq(chunk.payload, i, j)
      IN  /\ \A k \in 1..Len(chunk.payload) :
               (k < i \/ k > j) => chunk.payload[k] \in Whitespace
          /\ data # <<>> =>
               (data[1] \notin Whitespace /\ data[Len(data)] \notin Whitespace)
          /\ (line = Null) <=>
               (logOptions.filter # <<>>
                  /\ ~DataIncludes(data, logOptions.filter))
          /\ line # Null =>
               /\ line[1].isError <=>
                    (chunk.header # <<>> /\ chunk.header[1] = 2)
               /\ IF logOptions.timestamps /\ TimestampMatch(data)
                    THEN /\ line[1].timestamp = "T"
                         /\ data = <<"T", data[2]>> \o line[1].message
                    ELSE /\ line[1].timestamp = "undefined"
                         /\ line[1].message = data

C36_Witness ==
  /\ received > 0 /\ line # Null
  /\ logOptions.filter = <<"e">>
  /\ chunk.header = <<2>> /\ line[1].isError
  /\ line[1].timestamp = "T"
  /\ line[1].message # chunk.payload

\* C37: once stop() has ended the stream while the logs were being
\* streamed (the handlers of 'error' and 'end' did not run and can no
\* longer run), the promise of streamLogs is settled, and it is resolved;
\* after an upstream error it is rejected, the lines received before
\* having been delivered.
C37_StopResolves ==
  /\ (lpc = "streaming" /\ stream = "destroyed") => logPromise = "resolved"
  /\ (lpc = "done" /\ stream = "destroyed" /\ logPromise # "resolved") =>
       logPromise = "rejected"

\* C40: no line is delivered to onLog after stop() has been called, also
\* when stop() was called while container.logs() was pending.
C40_NoLineAfterStop == ~lateLine

====
